---- MODULE Spec2Model ----
(***************************************************************************)
(* A model of rtla's "timerlat top" tool                                   *)
(* (tools/tracing/rtla/src/timerlat_top.c): the per-CPU statistics store,  *)
(* the renderer, the asynchronous stop handler and the control flow of     *)
(* timerlat_top_main from timerlat_init_top to exit().                     *)
(***************************************************************************)
EXTENDS Integers, Sequences, FiniteSets, TLC

VARIABLES
    pc,            \* position of timerlat_top_main
    params,        \* struct timerlat_top_params, as left by timerlat_top_parse_args
    config_debug,  \* the global set by -D
    top_data,      \* lifetime of top->data: "none", "alloc", "freed"
    cpu_data,      \* data->cpu_data[]: one struct timerlat_top_cpu per CPU
    stop_tracing,  \* static int stop_tracing
    return_value,  \* int return_value of timerlat_top_main
    record,        \* struct osnoise_tool *record: "uninit", "valid", "null", "destroyed"
    trace_on,      \* what tracefs_trace_is_on(trace->inst) reports
    sig,           \* signal dispositions: [int |-> SIGINT handler installed, alrm |-> alarm state]
    pending,       \* number of samples the tracer will still deliver
    seq,           \* top->trace.seq, the trace_seq buffer
    term,          \* what the last trace_seq_do_printf wrote to the terminal
    nsig,          \* number of stop_top runs so far
    hist           \* observation of the run so far: the calls made (print_loop and
                   \* print_final: timerlat_print_stats inside and after the loop,
                   \* save: save_trace_to_file, iterate: tracefs_iterate_raw_events,
                   \* free_top: timerlat_free_top), how often the loop was left,
                   \* the ingestion calls started with the stop flag set, whether
                   \* the current iteration rendered, what ended the set-up or
                   \* the loop, what the tracefs_trace_is_on after the loop said,
                   \* and the samples handed to timerlat_top_handler, in order

vars == <<pc, params, config_debug, top_data, cpu_data, stop_tracing, return_value,
          record, trace_on, sig, pending, seq, term, nsig, hist>>

-----------------------------------------------------------------------------
(* Bounds of the model *)

\* calls of timerlat_top_update made on a store before it is rendered
MaxUpdates == 2
\* number of CPUs reported by sysconf(_SC_NPROCESSORS_CONF)
NrCpus == 2
\* samples the tracer delivers during one run of timerlat_top_main
MaxSamples == 2
\* deliveries of SIGINT/SIGALRM during one run
MaxSignals == 2
\* the call counters of hist saturate here
MaxCount == 2
\* width of unsigned long long in the model (64 in the build)
UllBits == 20

UllMod == 2 ^ UllBits
\* (unsigned long long) ~0
UllMax == UllMod - 1

CPUs == 0 .. (NrCpus - 1)

\* latencies of the samples delivered while timerlat_top_main runs
LoopLatencies == {75000}

Inc(n) == IF n < MaxCount THEN n + 1 ELSE n

-----------------------------------------------------------------------------
(* StatsStore: timerlat_alloc_top, timerlat_top_update *)

\* calloc()ed struct timerlat_top_cpu
ZeroCpu ==
    [irq_count |-> 0, thread_count |-> 0,
     cur_irq |-> 0, min_irq |-> 0, sum_irq |-> 0, max_irq |-> 0,
     cur_thread |-> 0, min_thread |-> 0, sum_thread |-> 0, max_thread |-> 0]

\* an allocation that leaves the minima at the 0 of calloc
timerlat_alloc_top_zero ==
    [c \in CPUs |-> ZeroCpu]

timerlat_alloc_top ==
    [c \in CPUs |-> [ZeroCpu EXCEPT !.min_irq = UllMax, !.min_thread = UllMax]]

\* utils.h: if (*a > *b) *a = *b
update_min(a, b) == IF a > b THEN b ELSE a

\* utils.h: if (*a < *b) *a = *b
update_max(a, b) == IF a < b THEN b ELSE a

\* utils.h: *a += *b, on unsigned long long
update_sum(a, b) == (a + b) % UllMod

\* an update with update_min and update_max applied to each other's field
timerlat_top_update_swapped(data, cpu, thread, latency) ==
    IF thread = 0
    THEN [data EXCEPT ![cpu] =
            [@ EXCEPT !.irq_count = @ + 1,
                      !.cur_irq = latency,
                      !.min_irq = update_max(@, latency),
                      !.sum_irq = update_sum(@, latency),
                      !.max_irq = update_min(@, latency)]]
    ELSE [data EXCEPT ![cpu] =
            [@ EXCEPT !.thread_count = @ + 1,
                      !.cur_thread = latency,
                      !.min_thread = update_max(@, latency),
                      !.sum_thread = update_sum(@, latency),
                      !.max_thread = update_min(@, latency)]]

\* an update that accumulates cur instead of assigning it
timerlat_top_update_curacc(data, cpu, thread, latency) ==
    IF thread = 0
    THEN [data EXCEPT ![cpu] =
            [@ EXCEPT !.irq_count = @ + 1,
                      !.cur_irq = update_sum(@, latency),
                      !.min_irq = update_min(@, latency),
                      !.sum_irq = update_sum(@, latency),
                      !.max_irq = update_max(@, latency)]]
    ELSE [data EXCEPT ![cpu] =
            [@ EXCEPT !.thread_count = @ + 1,
                      !.cur_thread = update_sum(@, latency),
                      !.min_thread = update_min(@, latency),
                      !.sum_thread = update_sum(@, latency),
                      !.max_thread = update_max(@, latency)]]

\* an update that takes only context 1 for the thread
timerlat_top_update_ctx1(data, cpu, thread, latency) ==
    IF thread # 1
    THEN [data EXCEPT ![cpu] =
            [@ EXCEPT !.irq_count = @ + 1,
                      !.cur_irq = latency,
                      !.min_irq = update_min(@, latency),
                      !.sum_irq = update_sum(@, latency),
                      !.max_irq = update_max(@, latency)]]
    ELSE [data EXCEPT ![cpu] =
            [@ EXCEPT !.thread_count = @ + 1,
                      !.cur_thread = latency,
                      !.min_thread = update_min(@, latency),
                      !.sum_thread = update_sum(@, latency),
                      !.max_thread = update_max(@, latency)]]

timerlat_top_update(data, cpu, thread, latency) ==
    IF thread = 0
    THEN [data EXCEPT ![cpu] =
            [@ EXCEPT !.irq_count = @ + 1,
                      !.cur_irq = latency,
                      !.min_irq = update_min(@, latency),
                      !.sum_irq = update_sum(@, latency),
                      !.max_irq = update_max(@, latency)]]
    ELSE [data EXCEPT ![cpu] =
            [@ EXCEPT !.thread_count = @ + 1,
                      !.cur_thread = latency,
                      !.min_thread = update_min(@, latency),
                      !.sum_thread = update_sum(@, latency),
                      !.max_thread = update_max(@, latency)]]

\* timerlat_top_handler: the fields "context" and "timer_latency" of the event
timerlat_top_handler(data, cpu, thread, latency) ==
    timerlat_top_update(data, cpu, thread, latency)

-----------------------------------------------------------------------------
(* Renderer: timerlat_top_header, timerlat_top_print, clear_terminal,
   timerlat_print_stats.  The output is a sequence of tokens, one per piece of
   information written to the trace_seq. *)

timerlat_top_header(p) ==
    << [t |-> "title"],
       [t |-> "units", unit |-> IF p.output_divisor = 1 THEN "ns" ELSE "us"],
       [t |-> "columns"] >>

\* a group whose cur is printed without the division
Group_nodiv(count, cur, min, sum, max, divisor) ==
    IF count = 0
    THEN [kind |-> "dash", cur |-> 0, min |-> 0, avg |-> 0, max |-> 0]
    ELSE IF divisor = 0
    THEN [kind |-> "sigfpe", cur |-> 0, min |-> 0, avg |-> 0, max |-> 0]
    ELSE [kind |-> "val",
          cur |-> cur,
          min |-> min \div divisor,
          avg |-> (sum \div count) \div divisor,
          max |-> max \div divisor]

\* the four values of one group of a row; a division by zero traps (SIGFPE)
Group(count, cur, min, sum, max, divisor) ==
    IF count = 0
    THEN [kind |-> "dash", cur |-> 0, min |-> 0, avg |-> 0, max |-> 0]
    ELSE IF divisor = 0
    THEN [kind |-> "sigfpe", cur |-> 0, min |-> 0, avg |-> 0, max |-> 0]
    ELSE [kind |-> "val",
          cur |-> cur \div divisor,
          min |-> min \div divisor,
          avg |-> (sum \div count) \div divisor,
          max |-> max \div divisor]

Row(p, data, cpu) ==
    LET d == data[cpu]
    IN  [t |-> "row", cpu |-> cpu, count |-> d.irq_count,
         irq |-> Group(d.irq_count, d.cur_irq, d.min_irq, d.sum_irq, d.max_irq,
                       p.output_divisor),
         thread |-> Group(d.thread_count, d.cur_thread, d.min_thread, d.sum_thread,
                          d.max_thread, p.output_divisor)]

\* a row printer without the test for a CPU that has no sample
timerlat_top_print_noskip(p, data, cpu) ==
    IF p.output_divisor = 0
    THEN << >>
    ELSE << Row(p, data, cpu) >>

timerlat_top_print(p, data, cpu) ==
    IF p.output_divisor = 0
    THEN << >>
    ELSE IF data[cpu].irq_count = 0 /\ data[cpu].thread_count = 0
    THEN << >>
    ELSE << Row(p, data, cpu) >>

clear_terminal(debug) ==
    IF ~debug THEN << [t |-> "clear"] >> ELSE << >>

\* the loop of timerlat_print_stats over the CPUs i .. nr_cpus - 1
RECURSIVE PrintCpus(_, _, _)
PrintCpus(p, data, i) ==
    IF i >= NrCpus
    THEN << >>
    ELSE (IF p.cpus /\ i \notin p.monitored_cpus
          THEN << >>
          ELSE timerlat_top_print(p, data, i))
         \o PrintCpus(p, data, i + 1)

\* what timerlat_print_stats appends to the trace_seq before printing it
timerlat_print_stats(p, debug, data) ==
    (IF ~p.quiet THEN clear_terminal(debug) ELSE << >>)
    \o timerlat_top_header(p)
    \o PrintCpus(p, data, 0)

-----------------------------------------------------------------------------
(* Initial states: timerlat_top_main after timerlat_top_parse_args *)

\* the values timerlat_top_parse_args gives output_divisor (default, -n)
ParsedDivisors == {1000, 1}

\* struct timerlat_top_params as timerlat_top_parse_args can leave it:
\* cpus is "a -c option was given", monitored_cpus the CPUs parse_cpu_list marked
ParsedParams ==
    { p \in [quiet : BOOLEAN, trace_output : BOOLEAN, output_divisor : ParsedDivisors,
             cpus : BOOLEAN, monitored_cpus : SUBSET CPUs] :
        p.cpus <=> p.monitored_cpus # {} }

\* The command lines timerlat_top_main is run with: every combination of -q and -t,
\* alone or together with "-n -c 0 -D"
MainRuns ==
    { r \in [p : ParsedParams, debug : BOOLEAN] :
        \/ r.p.output_divisor = 1000 /\ ~r.p.cpus /\ ~r.debug
        \/ r.p.output_divisor = 1 /\ r.p.monitored_cpus = {0} /\ r.debug }

\* one timerlat event: record->cpu and its fields "context" and "timer_latency"
Sample(cpu, thread, latency) == [cpu |-> cpu, thread |-> thread, latency |-> latency]

NoCalls ==
    [print_loop |-> 0, print_final |-> 0, save |-> 0, iterate |-> 0, free_top |-> 0,
     loop_exits |-> 0, after_stop |-> 0, iter_printed |-> FALSE, cause |-> "none",
     query |-> "none", applied |-> << >>]

Init ==
    /\ pc = "init_top"
    /\ \E r \in MainRuns : params = r.p /\ config_debug = r.debug
    /\ top_data = "none"
    /\ cpu_data = [c \in {} |-> ZeroCpu]
    /\ stop_tracing = 0
    /\ return_value = 1
    /\ record = "uninit"
    /\ trace_on = FALSE
    /\ sig = [int |-> FALSE, alrm |-> "off"]
    /\ pending = MaxSamples
    /\ seq = << >>
    /\ term = << >>
    /\ nsig = 0
    /\ hist = NoCalls

-----------------------------------------------------------------------------
(* stop_top and the asynchronous deliveries of SIGINT and SIGALRM *)

\* a handler that flips the flag instead of setting it
stop_top_toggle(flag) == 1 - flag

\* stop_top: the new value of stop_tracing
stop_top(flag) == 1

Running == pc \notin {"exited", "crashed"}

\* a handler that also prints the statistics itself
SigInt_render ==
    /\ Running
    /\ sig.int
    /\ nsig < MaxSignals
    /\ stop_tracing' = stop_top(stop_tracing)
    /\ nsig' = nsig + 1
    /\ seq' = seq \o timerlat_print_stats(params, config_debug, cpu_data)
    /\ UNCHANGED <<pc, params, config_debug, top_data, cpu_data, return_value, record,
                   trace_on, sig, pending, term, hist>>

\* the user's interrupt, once signal(SIGINT, stop_top) is done
SigInt ==
    /\ Running
    /\ sig.int
    /\ nsig < MaxSignals
    /\ stop_tracing' = stop_top(stop_tracing)
    /\ nsig' = nsig + 1
    /\ UNCHANGED <<pc, params, config_debug, top_data, cpu_data, return_value, record,
                   trace_on, sig, pending, seq, term, hist>>

\* the expiry of alarm(params->duration)
SigAlrm ==
    /\ Running
    /\ sig.alrm = "armed"
    /\ stop_tracing' = stop_top(stop_tracing)
    /\ sig' = [sig EXCEPT !.alrm = "fired"]
    /\ nsig' = nsig + 1
    /\ UNCHANGED <<pc, params, config_debug, top_data, cpu_data, return_value, record,
                   trace_on, pending, seq, term, hist>>

\* the tracer stops itself (stop_us / stop_total_us threshold hit)
TracerStop ==
    /\ Running
    /\ trace_on
    /\ trace_on' = FALSE
    /\ UNCHANGED <<pc, params, config_debug, top_data, cpu_data, stop_tracing,
                   return_value, record, sig, pending, seq, term, nsig, hist>>

-----------------------------------------------------------------------------
(* timerlat_top_main, from timerlat_init_top to the start of the loop *)

\* timerlat_init_top: osnoise_init_tool may fail ("tool"), and in
\* timerlat_alloc_top the calloc of the store ("data") or the calloc of its
\* per-CPU array ("cpu_data"); the last one runs timerlat_free_top(data) on the
\* store it had allocated before timerlat_init_top returns NULL
InitTop ==
    /\ pc = "init_top"
    /\ \E outcome \in {"ok", "tool", "data", "cpu_data"} :
         IF outcome = "ok"
         THEN /\ top_data' = "alloc"
              /\ cpu_data' = timerlat_alloc_top
              /\ pc' = "apply_config"
              /\ hist' = hist
         ELSE IF outcome = "cpu_data"
         THEN /\ top_data' = "freed"
              /\ cpu_data' = cpu_data
              /\ pc' = "out_exit"
              /\ hist' = [hist EXCEPT !.cause = "init", !.free_top = Inc(@)]
         ELSE /\ pc' = "out_exit"
              /\ hist' = [hist EXCEPT !.cause = "init"]
              /\ UNCHANGED <<top_data, cpu_data>>
    /\ UNCHANGED <<params, config_debug, stop_tracing, return_value, record, trace_on,
                   sig, pending, seq, term, nsig>>

\* a step of the set-up that either succeeds or does "goto out_top"
SetupStep(from, to, why) ==
    /\ pc = from
    /\ \E ok \in BOOLEAN :
         IF ok
         THEN pc' = to /\ hist' = hist
         ELSE pc' = "out_top" /\ hist' = [hist EXCEPT !.cause = why]

\* retval = timerlat_top_apply_config(top, params)
ApplyConfig ==
    /\ SetupStep("apply_config", "enable", "config")
    /\ UNCHANGED <<params, config_debug, top_data, cpu_data, stop_tracing, return_value,
                   record, trace_on, sig, pending, seq, term, nsig>>

\* retval = enable_timerlat(trace)
EnableTimerlat ==
    /\ SetupStep("enable", "set_sched", "enable")
    /\ UNCHANGED <<params, config_debug, top_data, cpu_data, stop_tracing, return_value,
                   record, trace_on, sig, pending, seq, term, nsig>>

\* if (params->set_sched) retval = set_comm_sched_attr(...)
SetSched ==
    /\ pc = "set_sched"
    /\ \E set_sched \in BOOLEAN, ok \in BOOLEAN :
         IF set_sched /\ ~ok
         THEN pc' = "out_top" /\ hist' = [hist EXCEPT !.cause = "sched"]
         ELSE pc' = "start" /\ hist' = hist
    /\ UNCHANGED <<params, config_debug, top_data, cpu_data, stop_tracing, return_value,
                   record, trace_on, sig, pending, seq, term, nsig>>

\* trace_instance_start(trace)
TraceStart ==
    /\ pc = "start"
    /\ trace_on' = TRUE
    /\ pc' = "init_record"
    /\ UNCHANGED <<params, config_debug, top_data, cpu_data, stop_tracing, return_value,
                   record, sig, pending, seq, term, nsig, hist>>

\* if (params->trace_output) record = osnoise_init_trace_tool("timerlat")
InitRecord ==
    /\ pc = "init_record"
    /\ IF params.trace_output
       THEN \E ok \in BOOLEAN :
              IF ok
              THEN record' = "valid" /\ pc' = "set_signals" /\ hist' = hist
              ELSE /\ record' = "null"
                   /\ pc' = "out_top"
                   /\ hist' = [hist EXCEPT !.cause = "record"]
       ELSE record' = record /\ pc' = "set_signals" /\ hist' = hist
    /\ UNCHANGED <<params, config_debug, top_data, cpu_data, stop_tracing, return_value,
                   trace_on, sig, pending, seq, term, nsig>>

\* top->start_time = time(NULL); timerlat_top_set_signals(params)
timerlat_top_set_signals ==
    /\ pc = "set_signals"
    /\ \E duration \in BOOLEAN :
         sig' = [int |-> TRUE, alrm |-> IF duration THEN "armed" ELSE "off"]
    /\ pc' = "loop_test"
    /\ UNCHANGED <<params, config_debug, top_data, cpu_data, stop_tracing, return_value,
                   record, trace_on, pending, seq, term, nsig, hist>>

-----------------------------------------------------------------------------
(* timerlat_top_main: the main loop *)

\* a loop that never tests the flag
LoopCond_forever(flag) == TRUE

\* while (!stop_tracing)
LoopCond(flag) == flag = 0

\* a per-cycle render that is skipped once the stop flag is set or the tracer is off
LoopPrintCond_running(p) == ~p.quiet /\ stop_tracing = 0 /\ trace_on

\* a per-cycle render that ignores -q
LoopPrintCond_always(p) == TRUE

\* if (!params->quiet) timerlat_print_stats(params, top), inside the loop
LoopPrintCond(p) == ~p.quiet

\* if (!tracefs_trace_is_on(trace->inst)) break
BreakCond(on) == ~on

\* a recorder call that does not ask the tracer
SaveCond_any(p, on) == p.trace_output

\* a recorder call that is skipped when the user or the alarm stopped the run
SaveCond_unless_stopped(p, on) == ~on /\ p.trace_output /\ stop_tracing = 0

\* if (!tracefs_trace_is_on(trace->inst)) { if (params->trace_output) save_trace_to_file }
SaveCond(p, on) == ~on /\ p.trace_output

\* the CPUs on which samples arrive while timerlat_top_main runs
SampledCpus == {0, NrCpus - 1}

\* the CPUs the tracer runs on: osnoise_set_cpus(top->context, params->cpus)
TracedCpus == IF params.cpus THEN params.monitored_cpus ELSE SampledCpus

LoopTest ==
    /\ pc = "loop_test"
    /\ IF LoopCond(stop_tracing)
       THEN /\ pc' = "sleep"
            /\ hist' = [hist EXCEPT !.iter_printed = FALSE]
       ELSE /\ pc' = "final_print"
            /\ hist' = [hist EXCEPT !.loop_exits = Inc(@), !.cause = "stop"]
    /\ UNCHANGED <<params, config_debug, top_data, cpu_data, stop_tracing, return_value,
                   record, trace_on, sig, pending, seq, term, nsig>>

\* sleep(params->sleep_time) returns and tracefs_iterate_raw_events is called
Sleep ==
    /\ pc = "sleep"
    /\ pc' = "iterate"
    /\ hist' = [hist EXCEPT !.iterate = Inc(@),
                            !.after_stop = IF stop_tracing = 1 THEN Inc(@) ELSE @]
    /\ UNCHANGED <<params, config_debug, top_data, cpu_data, stop_tracing, return_value,
                   record, trace_on, sig, pending, seq, term, nsig>>

\* tracefs_iterate_raw_events hands one event to timerlat_top_handler
Deliver ==
    /\ pc = "iterate"
    /\ pending > 0
    /\ \E cpu \in TracedCpus, thread \in {0, 1}, latency \in LoopLatencies :
         cpu_data' = timerlat_top_handler(cpu_data, cpu, thread, latency)
    /\ pending' = pending - 1
    /\ UNCHANGED <<pc, params, config_debug, top_data, stop_tracing, return_value,
                   record, trace_on, sig, seq, term, nsig, hist>>

\* an ingestion error that is retried in the next iteration
IterateReturn_retry ==
    /\ pc = "iterate"
    /\ \E retval \in {-1, 0} :
         IF retval < 0
         THEN /\ pc' = "loop_test"
              /\ hist' = [hist EXCEPT !.cause = "ingest"]
         ELSE /\ pc' = "loop_print"
              /\ hist' = hist
    /\ UNCHANGED <<params, config_debug, top_data, cpu_data, stop_tracing, return_value,
                   record, trace_on, sig, pending, seq, term, nsig>>

\* tracefs_iterate_raw_events returns: retval < 0 is "goto out_top"
IterateReturn ==
    /\ pc = "iterate"
    /\ \E retval \in {-1, 0} :
         IF retval < 0
         THEN /\ pc' = "out_top"
              /\ hist' = [hist EXCEPT !.loop_exits = Inc(@), !.cause = "ingest"]
         ELSE /\ pc' = "loop_print"
              /\ hist' = hist
    /\ UNCHANGED <<params, config_debug, top_data, cpu_data, stop_tracing, return_value,
                   record, trace_on, sig, pending, seq, term, nsig>>

\* the per-cycle timerlat_print_stats, up to trace_seq_do_printf
LoopPrint ==
    /\ pc = "loop_print"
    /\ IF LoopPrintCond(params)
       THEN /\ seq' = seq \o timerlat_print_stats(params, config_debug, cpu_data)
            /\ pc' = "loop_flush"
            /\ hist' = [hist EXCEPT !.print_loop = Inc(@), !.iter_printed = TRUE]
       ELSE /\ pc' = "loop_is_on"
            /\ UNCHANGED <<seq, hist>>
    /\ UNCHANGED <<params, config_debug, top_data, cpu_data, stop_tracing, return_value,
                   record, trace_on, sig, pending, term, nsig>>

\* trace_seq_do_printf(trace->seq); trace_seq_reset(trace->seq)
LoopFlush ==
    /\ pc = "loop_flush"
    /\ term' = seq
    /\ seq' = << >>
    /\ pc' = "loop_is_on"
    /\ UNCHANGED <<params, config_debug, top_data, cpu_data, stop_tracing, return_value,
                   record, trace_on, sig, pending, nsig, hist>>

LoopIsOn ==
    /\ pc = "loop_is_on"
    /\ IF BreakCond(trace_on)
       THEN /\ pc' = "final_print"
            /\ hist' = [hist EXCEPT !.loop_exits = Inc(@), !.cause = "trace_off"]
       ELSE /\ pc' = "loop_test"
            /\ hist' = hist
    /\ UNCHANGED <<params, config_debug, top_data, cpu_data, stop_tracing, return_value,
                   record, trace_on, sig, pending, seq, term, nsig>>

-----------------------------------------------------------------------------
(* timerlat_top_main: after the loop *)

\* a final render that honours -q
FinalPrint_quiet ==
    /\ pc = "final_print"
    /\ IF params.quiet
       THEN UNCHANGED <<seq, hist>>
       ELSE /\ seq' = seq \o timerlat_print_stats(params, config_debug, cpu_data)
            /\ hist' = [hist EXCEPT !.print_final = Inc(@)]
    /\ pc' = "final_flush"
    /\ UNCHANGED <<params, config_debug, top_data, cpu_data, stop_tracing, return_value,
                   record, trace_on, sig, pending, term, nsig>>

\* the timerlat_print_stats after the loop, up to trace_seq_do_printf
FinalPrint ==
    /\ pc = "final_print"
    /\ seq' = seq \o timerlat_print_stats(params, config_debug, cpu_data)
    /\ pc' = "final_flush"
    /\ hist' = [hist EXCEPT !.print_final = Inc(@)]
    /\ UNCHANGED <<params, config_debug, top_data, cpu_data, stop_tracing, return_value,
                   record, trace_on, sig, pending, term, nsig>>

\* a final render after which return_value is left as it was
FinalFlush_norv ==
    /\ pc = "final_flush"
    /\ term' = seq
    /\ seq' = << >>
    /\ pc' = "post_is_on"
    /\ UNCHANGED <<params, config_debug, top_data, cpu_data, stop_tracing, record,
                   return_value, trace_on, sig, pending, nsig, hist>>

\* trace_seq_do_printf; trace_seq_reset; return_value = 0
FinalFlush ==
    /\ pc = "final_flush"
    /\ term' = seq
    /\ seq' = << >>
    /\ return_value' = 0
    /\ pc' = "post_is_on"
    /\ UNCHANGED <<params, config_debug, top_data, cpu_data, stop_tracing, record,
                   trace_on, sig, pending, nsig, hist>>

PostIsOn ==
    /\ pc = "post_is_on"
    /\ pc' = IF SaveCond(params, trace_on) THEN "save" ELSE "out_top"
    /\ hist' = [hist EXCEPT !.query = IF trace_on THEN "on" ELSE "off"]
    /\ UNCHANGED <<params, config_debug, top_data, cpu_data, stop_tracing, return_value,
                   record, trace_on, sig, pending, seq, term, nsig>>

\* save_trace_to_file(record->trace.inst, params->trace_output)
SaveTrace ==
    /\ pc = "save"
    /\ hist' = [hist EXCEPT !.save = Inc(@)]
    /\ pc' = "out_top"
    /\ UNCHANGED <<params, config_debug, top_data, cpu_data, stop_tracing, return_value,
                   record, trace_on, sig, pending, seq, term, nsig>>

\* a clean-up that frees the store only after a successful run
OutTop_leak ==
    /\ pc = "out_top"
    /\ IF return_value = 0
       THEN top_data' = "freed" /\ hist' = [hist EXCEPT !.free_top = Inc(@)]
       ELSE UNCHANGED <<top_data, hist>>
    /\ IF ~params.trace_output
       THEN record' = record /\ pc' = "out_exit"
       ELSE IF record = "valid"
       THEN record' = "destroyed" /\ pc' = "out_exit"
       ELSE record' = record /\ pc' \in {"out_exit", "crashed"}
    /\ UNCHANGED <<params, config_debug, cpu_data, stop_tracing, return_value,
                   trace_on, sig, pending, seq, term, nsig>>

\* out_top: timerlat_free_top; osnoise_destroy_tool(top);
\* if (params->trace_output) osnoise_destroy_tool(record); free(params).
\* Destroying a record that is not a tool is undefined: the process goes on or dies.
OutTop ==
    /\ pc = "out_top"
    /\ top_data' = "freed"
    /\ hist' = [hist EXCEPT !.free_top = Inc(@)]
    /\ IF ~params.trace_output
       THEN record' = record /\ pc' = "out_exit"
       ELSE IF record = "valid"
       THEN record' = "destroyed" /\ pc' = "out_exit"
       ELSE record' = record /\ pc' \in {"out_exit", "crashed"}
    /\ UNCHANGED <<params, config_debug, cpu_data, stop_tracing, return_value,
                   trace_on, sig, pending, seq, term, nsig>>

\* out_exit: exit(return_value)
OutExit ==
    /\ pc = "out_exit"
    /\ pc' = "exited"
    /\ UNCHANGED <<params, config_debug, top_data, cpu_data, stop_tracing, return_value,
                   record, trace_on, sig, pending, seq, term, nsig, hist>>

-----------------------------------------------------------------------------

\* the steps of timerlat_top_main
Main ==
    \/ InitTop \/ ApplyConfig \/ EnableTimerlat \/ SetSched \/ TraceStart
    \/ InitRecord \/ timerlat_top_set_signals
    \/ LoopTest \/ Sleep \/ Deliver \/ IterateReturn \/ LoopPrint \/ LoopFlush
    \/ LoopIsOn \/ FinalPrint \/ FinalFlush \/ PostIsOn \/ SaveTrace \/ OutTop
    \/ OutExit

Next == Main \/ SigInt \/ SigAlrm \/ TracerStop

Spec == Init /\ [][Next]_vars

\* timerlat_top_main keeps running (sleep and the calls it makes return), and an
\* armed alarm expires
FairSpec == Spec /\ WF_vars(Main) /\ WF_vars(SigAlrm)

Done == pc \in {"exited", "crashed"}

LoopEnded == hist.cause \in {"stop", "trace_off"}

-----------------------------------------------------------------------------
(* Properties of the control loop *)

\* C1: stop_tracing starts at 0; once stop_top has set it, it stays set whatever
\* further SIGINT/SIGALRM deliveries follow; and the main loop is left at most
\* once, exactly once in every run that reached it and has exited.
C1_StopFlagSticky ==
    /\ stop_tracing = 0
    /\ [][ /\ (stop_tracing = 1 => stop_tracing' = 1)
           /\ (nsig' # nsig => stop_tracing' = 1)
           /\ hist'.loop_exits <= 1
           /\ (pc' = "exited" /\ sig'.int => hist'.loop_exits = 1) ]_vars

\* C1 witness: a run that has exited after two deliveries, the flag still set
C1_Witness ==
    pc = "exited" /\ nsig >= 2 /\ stop_tracing = 1 /\ hist.loop_exits = 1

\* C2 as stated: when the samples of an iteration have been ingested and the stop
\* flag is set or the tracer is off, the iteration does not render.
C2_NoRenderWhenStopping ==
    [][ (pc = "loop_print" /\ (stop_tracing = 1 \/ ~trace_on) /\ pc' # pc)
            => (pc' # "loop_flush" /\ hist'.print_loop = hist.print_loop) ]_vars

\* C2 amended: after the samples of an iteration are ingested, the per-cycle
\* render is made exactly when quiet mode is off, whatever the stop flag and the
\* tracer say; then the loop is left if the tracer reports that it is off, and
\* otherwise when the next loop test finds the stop flag set.
C2_RenderThenTest ==
    [][ /\ (pc = "loop_print" /\ pc' # pc)
              => /\ (pc' = "loop_flush") <=> ~params.quiet
                 /\ (hist'.print_loop # hist.print_loop \/ hist'.iter_printed)
                        <=> ~params.quiet
        /\ (hist'.print_loop # hist.print_loop) => (pc = "loop_print" /\ ~params.quiet)
        /\ (pc = "loop_is_on" /\ pc' # pc) => ((pc' = "final_print") <=> ~trace_on)
        /\ (pc = "loop_test" /\ pc' # pc)
              => ((pc' = "final_print") <=> stop_tracing = 1) ]_vars

\* C2 witness: the loop was left by the break in an iteration that rendered
C2_Witness ==
    pc = "final_print" /\ hist.cause = "trace_off" /\ hist.iter_printed
    /\ stop_tracing = 1

\* C3: when the loop ended by the stop flag or by the tracer going off, exactly one
\* timerlat_print_stats is made after the loop, quiet or not, while the store is
\* still allocated.
C3_OneFinalRender ==
    [][ /\ (hist'.print_final # hist.print_final)
              => (hist.loop_exits = 1 /\ top_data = "alloc" /\ hist.free_top = 0)
        /\ (hist'.free_top # hist.free_top /\ LoopEnded) => hist.print_final = 1
        /\ (pc' = "exited" /\ LoopEnded')
              => (hist'.print_final = 1 /\ hist'.free_top = 1) ]_vars

\* C3 witness: a quiet run that ended by the stop flag, rendered once, released
C3_Witness ==
    pc = "exited" /\ params.quiet /\ hist.cause = "stop" /\ hist.print_final = 1
    /\ top_data = "freed"

\* C4 as stated: save_trace_to_file is called only with an output path and only
\* when the loop was left because the tracer went off.
C4_SaveOnlyAfterBreak ==
    hist.save > 0 => (params.trace_output /\ hist.cause = "trace_off")

\* C4 amended: save_trace_to_file is called only with an output path and only when
\* the tracefs_trace_is_on query made after the final render reports that the
\* tracer is off, which also happens in runs whose loop was left by the stop flag.
C4_SaveOnlyWhenOff ==
    [][ /\ (hist'.save # hist.save)
              => (pc = "save" /\ params.trace_output /\ hist.print_final = 1)
        /\ (pc = "post_is_on" /\ pc' # pc)
              => ((pc' = "save") <=> (params.trace_output /\ ~trace_on))
        /\ (pc' = "save" /\ pc # "save") => pc = "post_is_on" ]_vars

\* C4 witness: the trace was saved in a run whose loop was left by the stop flag
C4_Witness ==
    hist.save = 1 /\ hist.cause = "stop" /\ params.trace_output

\* C5: once tracefs_iterate_raw_events has reported an error, control is at the
\* release of the resources: no ingestion, no render, no recorder call and no
\* change of the store follow, and the exit status is not 0.
C5_IngestErrorAborts ==
    [][ /\ (hist'.cause = "ingest" /\ hist.cause # "ingest")
              => (pc = "iterate" /\ pc' = "out_top")
        /\ (hist.cause = "ingest")
              => /\ hist'.cause = "ingest"
                 /\ pc' \in {"out_top", "out_exit", "exited", "crashed"}
                 /\ hist'.iterate = hist.iterate
                 /\ hist'.print_loop = hist.print_loop
                 /\ hist'.print_final = hist.print_final
                 /\ hist'.save = hist.save
                 /\ UNCHANGED <<cpu_data, seq, term>>
        /\ (hist'.cause = "ingest") => return_value' # 0 ]_vars

\* C5 witness: a run that exited on an ingestion error after a per-cycle render
C5_Witness ==
    pc = "exited" /\ hist.cause = "ingest" /\ return_value = 1
    /\ hist.print_loop = 1 /\ hist.print_final = 0 /\ hist.free_top = 1

\* C6: at exit the status is 0 exactly when the loop ended by the stop flag or by
\* the tracer going off and the final render was made; it is not 0 after a failure
\* of the set-up or of the ingestion.
C6_ExitStatus ==
    /\ pc = "exited"
          => /\ (return_value = 0) <=> (LoopEnded /\ hist.print_final = 1)
             /\ hist.cause \in {"init", "config", "enable", "sched", "record", "ingest"}
                    => return_value # 0
             /\ hist.cause # "none"
    /\ pc = "crashed" => ~LoopEnded

\* C6 witness: a run that exits with status 0 after the tracer went off
C6_Witness ==
    pc = "exited" /\ return_value = 0 /\ hist.cause = "trace_off"

\* C7: with the signals armed, a stop request is seen at the next loop test: at
\* most one more ingestion call is started after it, and the run terminates; a
\* run with a duration terminates.
C7_StopIsActedOn ==
    /\ [](hist.after_stop <= 1)
    /\ ((stop_tracing = 1 \/ sig.alrm = "armed") ~> Done)

\* C7 witness: a run ended by the alarm alone, with no sample and the tracer on
C7_Witness ==
    pc = "exited" /\ sig.alrm = "fired" /\ nsig = 1 /\ pending = MaxSamples
    /\ trace_on /\ hist.after_stop = 1 /\ return_value = 0

\* C8: a run of stop_top, wherever it interrupts timerlat_top_main, changes the
\* stop flag only: store, trace_seq, terminal and position are as before it.
C8_HandlerFrame ==
    [][ (nsig' # nsig)
            => UNCHANGED <<pc, params, config_debug, top_data, cpu_data, return_value,
                           record, trace_on, pending, seq, term, hist>> ]_vars

\* C8 witness: stop_top ran between the start of an ingestion call and the end of
\* the render that follows it, with samples in the store
C8_Witness ==
    pc = "loop_flush" /\ nsig > 0 /\ hist.after_stop = 0 /\ seq # << >>
    /\ pending < MaxSamples

\* C9: in quiet mode no render is made inside the loop, and a quiet run that ended
\* by the stop flag or by the tracer going off has rendered exactly once.
C9_QuietRendersOnce ==
    params.quiet
        => /\ hist.print_loop = 0
           /\ ~hist.iter_printed
           /\ (pc = "exited" /\ LoopEnded)
                  => hist.print_loop + hist.print_final = 1

\* C9 witness: a quiet run of several iterations that has exited
C9_Witness ==
    pc = "exited" /\ params.quiet /\ LoopEnded /\ hist.iterate >= 2
    /\ hist.print_final = 1

-----------------------------------------------------------------------------
(* The store and the renderer on their own: timerlat_top_handler and
   timerlat_print_stats applied to a freshly allocated store, for the params
   timerlat_top_parse_args can leave and samples of any context and latency. *)

\* latencies of the samples: none, 75 us, the largest unsigned long long
StatLatencies == {0, 75000, UllMax}

\* values of the "context" field of a sample: 0 is the IRQ, the others the thread
StatContexts == {0, 1, 2}

\* params as timerlat_top_parse_args leaves them for timerlat_print_stats:
\* output_divisor is 1000, or 1 with -n
StatsParams ==
    { p \in [quiet : BOOLEAN, trace_output : {FALSE}, output_divisor : ParsedDivisors,
             cpus : BOOLEAN, monitored_cpus : {{}, {0}}] :
        p.cpus <=> p.monitored_cpus # {} }

InitStats ==
    /\ pc = "stats"
    /\ params \in StatsParams
    /\ config_debug \in BOOLEAN
    /\ top_data = "alloc"
    /\ cpu_data = timerlat_alloc_top
    /\ stop_tracing = 0
    /\ return_value = 1
    /\ record = "uninit"
    /\ trace_on = TRUE
    /\ sig = [int |-> FALSE, alrm |-> "off"]
    /\ pending = MaxUpdates
    /\ seq = << >>
    /\ term = << >>
    /\ nsig = 0
    /\ hist = NoCalls

\* one event handed to timerlat_top_handler
StatsUpdate ==
    /\ pc = "stats"
    /\ pending > 0
    /\ \E cpu \in SampledCpus, thread \in StatContexts, latency \in StatLatencies :
         /\ cpu_data' = timerlat_top_handler(cpu_data, cpu, thread, latency)
         /\ hist' = [hist EXCEPT !.applied = Append(@, Sample(cpu, thread, latency))]
    /\ pending' = pending - 1
    /\ UNCHANGED <<pc, params, config_debug, top_data, stop_tracing, return_value,
                   record, trace_on, sig, seq, term, nsig>>

\* one call of timerlat_print_stats, trace_seq_do_printf and trace_seq_reset included
StatsPrint ==
    /\ pc = "stats"
    /\ term' = seq \o timerlat_print_stats(params, config_debug, cpu_data)
    /\ seq' = << >>
    /\ UNCHANGED <<pc, params, config_debug, top_data, cpu_data, stop_tracing,
                   return_value, record, trace_on, sig, pending, nsig, hist>>

NextStats == StatsUpdate \/ StatsPrint

StatsSpec == InitStats /\ [][NextStats]_vars

\* the header makes every output non-empty
Rendered == pc = "stats" /\ term # << >>


-----------------------------------------------------------------------------
(* Properties of the store *)

Contexts == {"irq", "thread"}

\* the fields of one context of a struct timerlat_top_cpu
Fields(d, ctx) ==
    IF ctx = "irq"
    THEN [count |-> d.irq_count, cur |-> d.cur_irq, min |-> d.min_irq,
          sum |-> d.sum_irq, max |-> d.max_irq]
    ELSE [count |-> d.thread_count, cur |-> d.cur_thread, min |-> d.min_thread,
          sum |-> d.sum_thread, max |-> d.max_thread]

\* the samples of a sequence that are of one CPU and context, in order
SamplesOf(samples, cpu, ctx) ==
    LET Mine(x) == x.cpu = cpu /\ ((x.thread = 0) <=> (ctx = "irq"))
    IN  SelectSeq(samples, Mine)

\* the latencies applied so far to one CPU and context, in order
Applied(cpu, ctx) ==
    LET own == SamplesOf(hist.applied, cpu, ctx)
    IN  [i \in 1 .. Len(own) |-> own[i].latency]

\* C11: after each timerlat_top_update, for every CPU and context,
\* min <= L <= max for every latency L applied to it so far, and min <= max
\* once the count is positive.
C11_ExtremesBoundSamples ==
    \A cpu \in CPUs, ctx \in Contexts :
        LET f == Fields(cpu_data[cpu], ctx)
            lats == Applied(cpu, ctx)
        IN  /\ \A i \in 1 .. Len(lats) : f.min <= lats[i] /\ lats[i] <= f.max
            /\ f.count > 0 => f.min <= f.max

\* C11 witness: two different latencies were applied to the IRQ context of CPU 0
C11_Witness ==
    /\ cpu_data[0].irq_count = 2
    /\ cpu_data[0].min_irq = 75000
    /\ cpu_data[0].max_irq = UllMax
    /\ cpu_data[0].cur_irq = 75000

\* C12: a context that no sample was applied to has count 0, min all bits set and
\* cur, sum and max 0; after its first sample its count is 1 and min, max, cur
\* and sum are that sample's latency.
C12_UnsetThenFirst ==
    \A cpu \in CPUs, ctx \in Contexts :
        LET f == Fields(cpu_data[cpu], ctx)
            lats == Applied(cpu, ctx)
        IN  /\ Len(lats) = 0
                  => (f.count = 0 /\ f.min = UllMax /\ f.cur = 0 /\ f.sum = 0
                      /\ f.max = 0)
            /\ Len(lats) = 1
                  => (f.count = 1 /\ f.min = lats[1] /\ f.max = lats[1]
                      /\ f.cur = lats[1] /\ f.sum = lats[1])

\* C12 witness: CPU 0 has its first thread sample and no IRQ sample yet
C12_Witness ==
    /\ cpu_data[0].thread_count = 1 /\ cpu_data[0].cur_thread = 75000
    /\ cpu_data[0].irq_count = 0 /\ cpu_data[0].min_irq = UllMax

\* C13: whenever a count is positive, min <= sum / count <= max, with sum the
\* unsigned accumulator of timerlat_top_update and / the truncating division.
C13_AverageBounded ==
    \A cpu \in CPUs, ctx \in Contexts :
        LET f == Fields(cpu_data[cpu], ctx)
        IN  f.count > 0
                => (f.min <= f.sum \div f.count /\ f.sum \div f.count <= f.max)

\* the store after timerlat_alloc_top and the samples of a sequence, in order
RECURSIVE Fold(_)
Fold(samples) ==
    IF samples = << >>
    THEN timerlat_alloc_top
    ELSE LET n == Len(samples)
             x == samples[n]
         IN  timerlat_top_handler(Fold(SubSeq(samples, 1, n - 1)),
                                  x.cpu, x.thread, x.latency)

\* the orderings of a sequence
Orderings(samples) ==
    LET n == Len(samples)
        perms == { f \in [1 .. n -> 1 .. n] : \A i, j \in 1 .. n : f[i] = f[j] => i = j }
    IN  { [i \in 1 .. n |-> samples[f[i]]] : f \in perms }

\* C16: the samples applied so far, in any other order, give the same count, min,
\* max and sum for every CPU and context; cur is the latency of the sample
\* applied last to that CPU and context.
C16_OrderOnlyInCur ==
    /\ \A other \in Orderings(hist.applied) :
         LET folded == Fold(other)
         IN  \A cpu \in CPUs, ctx \in Contexts :
                LET f == Fields(cpu_data[cpu], ctx)
                    g == Fields(folded[cpu], ctx)
                IN  f.count = g.count /\ f.min = g.min /\ f.max = g.max
                    /\ f.sum = g.sum
    /\ \A cpu \in CPUs, ctx \in Contexts :
         LET lats == Applied(cpu, ctx)
         IN  Len(lats) > 0 => Fields(cpu_data[cpu], ctx).cur = lats[Len(lats)]

\* C16 witness: two different latencies on one CPU and context, whose other order
\* ends with another cur
C16_Witness ==
    /\ Len(hist.applied) = 2
    /\ Applied(0, "irq") = << UllMax, 75000 >>
    /\ cpu_data[0].cur_irq = 75000
    /\ \E other \in Orderings(hist.applied) : Fold(other)[0].cur_irq = UllMax

\* C17: one sample adds one to the count of its context on its CPU and leaves
\* the other context of that CPU and every other CPU as they were; context 0 is
\* the IRQ, every other value the thread.
C17_UpdateFrame ==
    [][ (hist'.applied # hist.applied)
            => LET x == hist'.applied[Len(hist'.applied)]
                   ctx == IF x.thread = 0 THEN "irq" ELSE "thread"
                   rest == IF x.thread = 0 THEN "thread" ELSE "irq"
               IN  /\ \A c \in CPUs \ {x.cpu} : cpu_data'[c] = cpu_data[c]
                   /\ Fields(cpu_data'[x.cpu], rest) = Fields(cpu_data[x.cpu], rest)
                   /\ Fields(cpu_data'[x.cpu], ctx).count
                         = Fields(cpu_data[x.cpu], ctx).count + 1
                   /\ Fields(cpu_data'[x.cpu], ctx).cur = x.latency ]_vars

\* C17 witness: a sample with context 2 was counted for the thread of the last
\* CPU, after an IRQ sample on CPU 0
C17_Witness ==
    /\ Len(hist.applied) = 2
    /\ hist.applied[2].thread = 2 /\ hist.applied[2].cpu = NrCpus - 1
    /\ cpu_data[NrCpus - 1].thread_count = 1 /\ cpu_data[NrCpus - 1].irq_count = 0
    /\ cpu_data[0].irq_count = 1

-----------------------------------------------------------------------------
(* Properties of the renderer *)

\* a step of StatsSpec that is one timerlat_print_stats
RenderStep == pc = "stats" /\ hist'.applied = hist.applied

\* the CPU rows of an output
RowsOf(out) ==
    LET IsRow(x) == x.t = "row"
    IN  SelectSeq(out, IsRow)

HasSamples(d) == d.irq_count > 0 \/ d.thread_count > 0

\* C14: in every render the rows are of CPUs with at least one sample, each
\* CPU at most once, in increasing order of the CPU index; a CPU without samples
\* has no row.
C14_RowsOnlyForSampledCpus ==
    [][ RenderStep
            => LET rows == RowsOf(term')
               IN  /\ \A i \in 1 .. Len(rows) :
                         rows[i].cpu \in CPUs /\ HasSamples(cpu_data[rows[i].cpu])
                   /\ \A i, j \in 1 .. Len(rows) : i < j => rows[i].cpu < rows[j].cpu
                   /\ \A c \in CPUs :
                         ~HasSamples(cpu_data[c])
                            => \A i \in 1 .. Len(term') :
                                  term'[i].t = "row" => term'[i].cpu # c ]_vars

\* C14 witness: a render that shows the last CPU and omits CPU 0, which has no
\* sample
C14_Witness ==
    /\ Rendered /\ params.output_divisor = 1 /\ ~params.cpus
    /\ ~HasSamples(cpu_data[0])
    /\ Len(RowsOf(term)) = 1
    /\ RowsOf(term)[1].cpu = NrCpus - 1

\* what a row shows for one group of a CPU
GroupShows(g, f, divisor) ==
    IF f.count = 0
    THEN g.kind = "dash"
    ELSE /\ g.kind = "val"
         /\ g.cur = f.cur \div divisor
         /\ g.min = f.min \div divisor
         /\ g.avg = (f.sum \div f.count) \div divisor
         /\ g.max = f.max \div divisor

\* C18: with a positive divisor, every row of a render shows, for each group,
\* four placeholders when the count is 0 and otherwise cur / divisor,
\* min / divisor, (sum / count) / divisor and max / divisor, truncated; the render
\* leaves the store as it was.
C18_RowValues ==
    [][ (RenderStep /\ params.output_divisor > 0)
            => /\ cpu_data' = cpu_data
               /\ \A i \in 1 .. Len(term') :
                     term'[i].t = "row"
                        => LET r == term'[i]
                               d == cpu_data[r.cpu]
                           IN  /\ r.count = d.irq_count
                               /\ GroupShows(r.irq, Fields(d, "irq"),
                                             params.output_divisor)
                               /\ GroupShows(r.thread, Fields(d, "thread"),
                                             params.output_divisor) ]_vars

\* C18 witness: cur 75000 shown as 75 with divisor 1000, next to a thread group
\* of placeholders
C18_Witness ==
    /\ Rendered /\ params.output_divisor = 1000
    /\ cpu_data[0].cur_irq = 75000 /\ cpu_data[0].thread_count = 0
    /\ Len(RowsOf(term)) = 1
    /\ RowsOf(term)[1].cpu = 0
    /\ RowsOf(term)[1].irq.kind = "val" /\ RowsOf(term)[1].irq.cur = 75
    /\ RowsOf(term)[1].thread.kind = "dash"

-----------------------------------------------------------------------------
(* Properties of the clean-up *)

\* C15: once the store is allocated, every run that ends has released it exactly
\* once, and after the release the store is neither written nor rendered nor
\* released again.
C15_StoreReleasedOnce ==
    [][ /\ (top_data = "freed")
              => /\ top_data' = "freed"
                 /\ cpu_data' = cpu_data
                 /\ hist'.free_top = hist.free_top
                 /\ hist'.print_loop = hist.print_loop
                 /\ hist'.print_final = hist.print_final
        /\ (cpu_data' # cpu_data \/ hist'.print_loop # hist.print_loop
               \/ hist'.print_final # hist.print_final)
              => top_data' = "alloc"
        /\ (Done' /\ top_data' # "none")
              => (top_data' = "freed" /\ hist'.free_top = 1) ]_vars

\* C15 witness: a run that failed to enable the tracer has exited with the store
\* released
C15_Witness ==
    pc = "exited" /\ hist.cause = "enable" /\ top_data = "freed"
    /\ hist.free_top = 1 /\ return_value = 1

\* C19: after a loop ended by the stop flag or by the break, the trace is saved
\* exactly once if the tracefs_trace_is_on made after the final render said off
\* and an output path is set, and never if it said on, whichever ended the loop.
C19_DeactivationWins ==
    (pc \in {"out_top", "out_exit", "exited", "crashed"} /\ LoopEnded)
        => /\ hist.query \in {"on", "off"}
           /\ (hist.query = "off" /\ params.trace_output) => hist.save = 1
           /\ (hist.query = "on" \/ ~params.trace_output) => hist.save = 0

\* C19 witness: flag set and tracer off when the break left the loop; saved once
C19_Witness ==
    pc = "exited" /\ hist.cause = "trace_off" /\ stop_tracing = 1
    /\ hist.query = "off" /\ hist.save = 1

\* C20: at out_top with an output path set, the record handed to
\* osnoise_destroy_tool is a tool that osnoise_init_trace_tool created.
C20_RecordValidAtCleanup ==
    (pc = "out_top" /\ params.trace_output) => record = "valid"

====
